---- MODULE Spec2Model ----
(***************************************************************************)
(* JeffaSEO text analysis core (src/main.py): keyword normalisation,       *)
(* tokenisation, keyword extraction, keyword density in basis points, and  *)
(* the ContentGrade thresholds.                                            *)
(*                                                                         *)
(* A Python str is modelled as a sequence of Unicode code points.  The     *)
(* character tables below are exact for the code points 0..127, U+0130     *)
(* (304), U+0307 (775) and U+1D400 (119808), on strings in which U+0307    *)
(* only follows U+0069 (the only place str.lower() produces it here); on   *)
(* such strings NFKC and str.lower() act code point by code point.         *)
(***************************************************************************)
EXTENDS Integers, Sequences, FiniteSets, TLC

VARIABLES pc, op, text, keyword, min_len, stop_words, total_bps, ret

vars == <<pc, op, text, keyword, min_len, stop_words, total_bps, ret>>

(***************************************************************************)
(* Character classes and mappings of the Python runtime.                   *)
(***************************************************************************)

\* str.isspace / regex \s : TAB LF VT FF CR, FS GS RS US, SPACE
IsSpace(c) == c \in ((9..13) \cup (28..32))

\* regex \w : alphanumeric or underscore; U+0307 (a combining mark) is not
IsWord(c) == c \in ((48..57) \cup (65..90) \cup {95} \cup (97..122) \cup {304, 119808})

\* str.lower() of one code point; U+0130 lowers to U+0069 U+0307
LowerChar(c) ==
  IF c \in 65..90 THEN <<c + 32>>
  ELSE IF c = 304 THEN <<105, 775>>
  ELSE <<c>>

\* unicodedata.normalize("NFKC", c) of one code point; U+1D400 maps to "A"
NFKCChar(c) == IF c = 119808 THEN <<65>> ELSE <<c>>

RECURSIVE str_lower(_)
str_lower(s) ==
  IF s = <<>> THEN <<>> ELSE LowerChar(Head(s)) \o str_lower(Tail(s))

RECURSIVE NFKC(_)
NFKC(s) ==
  IF s = <<>> THEN <<>> ELSE NFKCChar(Head(s)) \o NFKC(Tail(s))

RECURSIVE str_lstrip(_)
str_lstrip(s) ==
  IF s # <<>> /\ IsSpace(Head(s)) THEN str_lstrip(Tail(s)) ELSE s

RECURSIVE str_rstrip(_)
str_rstrip(s) ==
  IF s # <<>> /\ IsSpace(s[Len(s)]) THEN str_rstrip(SubSeq(s, 1, Len(s) - 1)) ELSE s

str_strip(s) == str_rstrip(str_lstrip(s))

\* re.sub(r"\s+", " ", s)
RECURSIVE re_sub_spaces(_)
re_sub_spaces(s) ==
  IF s = <<>> THEN <<>>
  ELSE IF IsSpace(Head(s)) THEN <<32>> \o re_sub_spaces(str_lstrip(s))
  ELSE <<Head(s)>> \o re_sub_spaces(Tail(s))

\* re.sub(r"[^\w\s]", " ", s)
re_sub_nonword(s) ==
  [i \in 1..Len(s) |-> IF ~IsWord(s[i]) /\ ~IsSpace(s[i]) THEN 32 ELSE s[i]]

\* length of the longest prefix of s without whitespace
RECURSIVE WordLen(_)
WordLen(s) ==
  IF s = <<>> \/ IsSpace(Head(s)) THEN 0 ELSE 1 + WordLen(Tail(s))

\* str.split() with no argument: split on whitespace runs, no empty pieces
RECURSIVE str_split(_)
str_split(s) ==
  LET t == str_lstrip(s)
      n == WordLen(t)
  IN IF t = <<>> THEN <<>>
     ELSE <<SubSeq(t, 1, n)>> \o str_split(SubSeq(t, n + 1, Len(t)))

\* Python slice s[lo:hi] for 0 <= lo, clipped at the end of s
Slice(s, lo, hi) == SubSeq(s, lo + 1, IF hi < Len(s) THEN hi ELSE Len(s))

(***************************************************************************)
(* Program constants.                                                      *)
(***************************************************************************)

JEFFA_SCORE_BPS_CAP == 10000

JEFFA_STOP_WORDS_EN ==
  {
    <<97>>, <<97, 110>>, <<116, 104, 101>>, <<97, 110, 100>>,
    <<111, 114>>, <<98, 117, 116>>, <<105, 110>>, <<111, 110>>,
    <<97, 116>>, <<116, 111>>, <<102, 111, 114>>, <<111, 102>>,
    <<119, 105, 116, 104>>, <<98, 121>>, <<102, 114, 111, 109>>, <<97, 115>>,
    <<105, 115>>, <<119, 97, 115>>, <<97, 114, 101>>, <<119, 101, 114, 101>>,
    <<98, 101, 101, 110>>, <<98, 101>>, <<104, 97, 118, 101>>, <<104, 97, 115>>,
    <<104, 97, 100>>, <<100, 111>>, <<100, 111, 101, 115>>, <<100, 105, 100>>,
    <<119, 105, 108, 108>>, <<119, 111, 117, 108, 100>>, <<99, 111, 117, 108, 100>>,
    <<115, 104, 111, 117, 108, 100>>,
    <<109, 97, 121>>, <<109, 105, 103, 104, 116>>, <<109, 117, 115, 116>>,
    <<115, 104, 97, 108, 108>>,
    <<99, 97, 110>>, <<110, 101, 101, 100>>, <<100, 97, 114, 101>>,
    <<111, 117, 103, 104, 116>>
  }

\* ContentGrade with the B threshold mistyped
ContentGrade_wrongB == [A |-> 90, B |-> 70, C |-> 60, D |-> 40, F |-> 0]

\* class ContentGrade(Enum): member values
ContentGrade == [A |-> 90, B |-> 75, C |-> 60, D |-> 40, F |-> 0]

(***************************************************************************)
(* The functions.                                                          *)
(***************************************************************************)

jeffa_normalize_keyword(raw) ==
  LET s1 == str_lower(str_strip(raw))
      s2 == NFKC(s1)
      s3 == re_sub_spaces(s2)
  IN str_strip(s3)

jeffa_tokenize(txt) ==
  LET t1 == NFKC(txt)
      t2 == re_sub_nonword(t1)
      parts == SelectSeq(str_split(t2), LAMBDA t : t # <<>>)
  IN [i \in 1..Len(parts) |-> str_lower(parts[i])]

\* an optional frozenset argument: None, or a set of strings
None == [is_none |-> TRUE, value |-> {}]
Some(S) == [is_none |-> FALSE, value |-> S]

\* truth value of `stop_words` in `stop_words or JEFFA_STOP_WORDS_EN`
Truthy(sw) == ~sw.is_none /\ sw.value # {}

jeffa_extract_keywords(txt, minlen, sw) ==
  LET stop == IF Truthy(sw) THEN sw.value ELSE JEFFA_STOP_WORDS_EN
      tokens == jeffa_tokenize(txt)
  IN SelectSeq(tokens, LAMBDA t : Len(t) >= minlen /\ t \notin stop)

\* the loop with range(len(tokens) - len(kw_tokens)): the last window is not visited
RECURSIVE count_loop_short(_, _, _, _)
count_loop_short(tokens, kw_tokens, i, count) ==
  IF i >= Len(tokens) - Len(kw_tokens) THEN count
  ELSE count_loop_short(tokens, kw_tokens, i + 1,
                        IF Slice(tokens, i, i + Len(kw_tokens)) = kw_tokens
                        THEN count + 1 ELSE count)

\* the loop jumping past a matched window: overlapping matches are not counted
RECURSIVE count_loop_skip(_, _, _, _)
count_loop_skip(tokens, kw_tokens, i, count) ==
  IF i >= Len(tokens) - Len(kw_tokens) + 1 THEN count
  ELSE IF Slice(tokens, i, i + Len(kw_tokens)) = kw_tokens
       THEN count_loop_skip(tokens, kw_tokens, i + Len(kw_tokens), count + 1)
       ELSE count_loop_skip(tokens, kw_tokens, i + 1, count)

\* the loop comparing only the first token of the window
RECURSIVE count_loop_first(_, _, _, _)
count_loop_first(tokens, kw_tokens, i, count) ==
  IF i >= Len(tokens) - Len(kw_tokens) + 1 THEN count
  ELSE count_loop_first(tokens, kw_tokens, i + 1,
                        IF tokens[i + 1] = kw_tokens[1]
                        THEN count + 1 ELSE count)

\* for i in range(len(tokens) - len(kw_tokens) + 1): ... count += 1
RECURSIVE count_loop(_, _, _, _)
count_loop(tokens, kw_tokens, i, count) ==
  IF i >= Len(tokens) - Len(kw_tokens) + 1 THEN count
  ELSE count_loop(tokens, kw_tokens, i + 1,
                  IF Slice(tokens, i, i + Len(kw_tokens)) = kw_tokens
                  THEN count + 1 ELSE count)

\* the density without the `if not kw_tokens` guard
jeffa_keyword_density_bps_noguard(txt, kw) ==
  LET tokens == jeffa_tokenize(txt)
      kw_norm == jeffa_normalize_keyword(kw)
      kw_tokens == jeffa_tokenize(kw_norm)
  IN IF tokens = <<>> THEN 0
     ELSE (count_loop(tokens, kw_tokens, 0, 0) * 10000) \div Len(tokens)

\* the density divided by the keyword length instead of the document length
jeffa_keyword_density_bps_kwlen(txt, kw) ==
  LET tokens == jeffa_tokenize(txt)
      kw_norm == jeffa_normalize_keyword(kw)
      kw_tokens == jeffa_tokenize(kw_norm)
  IN IF tokens = <<>> THEN 0
     ELSE IF kw_tokens = <<>> THEN 0
     ELSE (count_loop(tokens, kw_tokens, 0, 0) * 10000) \div Len(kw_tokens)

jeffa_keyword_density_bps(txt, kw) ==
  LET tokens == jeffa_tokenize(txt)
      kw_norm == jeffa_normalize_keyword(kw)
      kw_tokens == jeffa_tokenize(kw_norm)
  IN IF tokens = <<>> THEN 0
     ELSE IF kw_tokens = <<>> THEN 0
     ELSE (count_loop(tokens, kw_tokens, 0, 0) * 10000) \div Len(tokens)

\* grade of a total score: the highest ContentGrade whose threshold,
\* taken in basis points, the score reaches
grade_for(total) ==
  IF total >= ContentGrade.A * 100 THEN "A"
  ELSE IF total >= ContentGrade.B * 100 THEN "B"
  ELSE IF total >= ContentGrade.C * 100 THEN "C"
  ELSE IF total >= ContentGrade.D * 100 THEN "D"
  ELSE "F"

(***************************************************************************)
(* Bounded inputs.                                                         *)
(***************************************************************************)

MaxRawLen == 3
MaxTextLen == 3
MaxKwLen == 1
MaxWords == 3
MaxKwWords == 2
MaxExtractWords == 3
MaxMinLen == 3

\* a, A, space, comma, U+1D400 MATHEMATICAL BOLD CAPITAL A,
\* U+0130 LATIN CAPITAL LETTER I WITH DOT ABOVE
Alphabet == {97, 65, 32, 44, 119808, 304}

Strings(n) == UNION {[1..m -> Alphabet] : m \in 0..n}

\* words joined by single spaces
RECURSIVE Join(_)
Join(ws) ==
  IF ws = <<>> THEN <<>>
  ELSE IF Len(ws) = 1 THEN ws[1]
  ELSE ws[1] \o <<32>> \o Join(Tail(ws))

Phrases(W, n) == {Join(ws) : ws \in UNION {[1..m -> W] : m \in 0..n}}

\* "aa", "Aa", "b"
DensityWords == {<<97, 97>>, <<65, 97>>, <<98>>}

\* "the quick brown fox the quick brown fox"
QuickBrownText ==
  <<116, 104, 101, 32, 113, 117, 105, 99, 107, 32, 98, 114, 111, 119, 110, 32,
    102, 111, 120, 32, 116, 104, 101, 32, 113, 117, 105, 99, 107, 32, 98, 114,
    111, 119, 110, 32, 102, 111, 120>>

\* "quick brown"
QuickBrownKeyword == <<113, 117, 105, 99, 107, 32, 98, 114, 111, 119, 110>>

Texts == Strings(MaxTextLen) \cup Phrases(DensityWords, MaxWords) \cup {QuickBrownText}

Keywords == Strings(MaxKwLen) \cup Phrases(DensityWords, MaxKwWords) \cup {QuickBrownKeyword}

\* "a", "An", "the", "cat"
ExtractWords == {<<97>>, <<65, 110>>, <<116, 104, 101>>, <<99, 97, 116>>}

ExtractTexts == Phrases(ExtractWords, MaxExtractWords)

\* "an", "the", "cat"
StopCandidates == {<<97, 110>>, <<116, 104, 101>>, <<99, 97, 116>>}

StopArgs == {None} \cup {Some(S) : S \in SUBSET StopCandidates}

(***************************************************************************)
(* One call of one function per behaviour: Init draws the arguments, the   *)
(* action applies the function and records its return value.               *)
(***************************************************************************)

Idle ==
  /\ pc = "call"
  /\ ret = <<>>

InitNormalize ==
  /\ op = "normalize" /\ text \in Strings(MaxRawLen)
  /\ keyword = <<>> /\ min_len = 2 /\ stop_words = None /\ total_bps = 0

InitTokenize ==
  /\ op = "tokenize" /\ text \in Strings(MaxRawLen)
  /\ keyword = <<>> /\ min_len = 2 /\ stop_words = None /\ total_bps = 0

InitExtract ==
  /\ op = "extract" /\ text \in ExtractTexts
  /\ min_len \in 0..MaxMinLen /\ stop_words \in StopArgs
  /\ keyword = <<>> /\ total_bps = 0

InitDensity ==
  /\ op = "density" /\ text \in Texts /\ keyword \in Keywords
  /\ min_len = 2 /\ stop_words = None /\ total_bps = 0

InitGrade ==
  /\ op = "grade" /\ total_bps \in 0..JEFFA_SCORE_BPS_CAP
  /\ text = <<>> /\ keyword = <<>> /\ min_len = 2 /\ stop_words = None

Init ==
  /\ Idle
  /\ (InitNormalize \/ InitTokenize \/ InitExtract \/ InitDensity \/ InitGrade)

Return(v) ==
  /\ ret' = v
  /\ pc' = "done"
  /\ UNCHANGED <<op, text, keyword, min_len, stop_words, total_bps>>

NormalizeKeyword ==
  /\ pc = "call" /\ op = "normalize"
  /\ Return(jeffa_normalize_keyword(text))

Tokenize ==
  /\ pc = "call" /\ op = "tokenize"
  /\ Return(jeffa_tokenize(text))

ExtractKeywords ==
  /\ pc = "call" /\ op = "extract"
  /\ Return(jeffa_extract_keywords(text, min_len, stop_words))

KeywordDensity ==
  /\ pc = "call" /\ op = "density"
  /\ Return(jeffa_keyword_density_bps(text, keyword))

Grade ==
  /\ pc = "call" /\ op = "grade"
  /\ Return(grade_for(total_bps))

Next == NormalizeKeyword \/ Tokenize \/ ExtractKeywords \/ KeywordDensity \/ Grade

Spec == Init /\ [][Next]_vars

Done(o) == pc = "done" /\ op = o

(***************************************************************************)
(* Vocabulary of the properties.                                           *)
(***************************************************************************)

DocTokens == jeffa_tokenize(text)

KwTokens == jeffa_tokenize(jeffa_normalize_keyword(keyword))

\* start indices (0-based) of the windows of d that equal k element-wise
MatchStarts(d, k) ==
  {i \in 0..(Len(d) - Len(k)) : \A j \in 1..Len(k) : d[i + j] = k[j]}

Occurrences(d, k) == Cardinality(MatchStarts(d, k))

Max0(x) == IF x > 0 THEN x ELSE 0

AllEqual(s, w) == \A i \in 1..Len(s) : s[i] = w

\* "aa aa aa" and "aa aa"
OverlapText == <<97, 97, 32, 97, 97, 32, 97, 97>>

OverlapKeyword == <<97, 97, 32, 97, 97>>

\* C1: when the document and the keyword both have tokens, the density is
\* floor(count * 10000 / n) with count the number of window starts at which
\* the document tokens equal the keyword tokens, unclamped; the quick-brown
\* example has density 2500.
C1_DensityIsWindowCount ==
  Done("density") =>
    /\ (DocTokens # <<>> /\ KwTokens # <<>>) =>
         ret = (Occurrences(DocTokens, KwTokens) * 10000) \div Len(DocTokens)
    /\ (text = QuickBrownText /\ keyword = QuickBrownKeyword) =>
         (Occurrences(DocTokens, KwTokens) = 2 /\ ret = 2500)

C1_Witness ==
  /\ Done("density")
  /\ text = QuickBrownText /\ keyword = QuickBrownKeyword
  /\ ret = 2500

\* C2: overlapping occurrences are each counted: a document of n copies of
\* one token and a keyword of k copies of it (1 <= k <= n) has count
\* n - k + 1; "aa aa aa" with "aa aa" has density 6666.
C2_OverlapsCounted ==
  Done("density") =>
    /\ (/\ KwTokens # <<>>
        /\ Len(KwTokens) <= Len(DocTokens)
        /\ AllEqual(KwTokens, KwTokens[1])
        /\ AllEqual(DocTokens, KwTokens[1])) =>
         ret = ((Len(DocTokens) - Len(KwTokens) + 1) * 10000) \div Len(DocTokens)
    /\ (text = OverlapText /\ keyword = OverlapKeyword) => ret = 6666

C2_Witness ==
  /\ Done("density")
  /\ text = OverlapText /\ keyword = OverlapKeyword
  /\ ret = 6666

\* C3: for a non-empty document text the density lies in 0..10000.
C3_DensityInRange ==
  (Done("density") /\ text # <<>>) => (0 <= ret /\ ret <= 10000)

C3_Witness ==
  /\ Done("density")
  /\ Len(DocTokens) >= 2
  /\ ret = 10000

\* C4: the density is unchanged when the text and the keyword are replaced
\* by their normalized forms, and tokenizing the normalized text gives the
\* tokens of the text.
C4_NormalizationInvariant ==
  Done("density") =>
    /\ ret = jeffa_keyword_density_bps(jeffa_normalize_keyword(text),
                                       jeffa_normalize_keyword(keyword))
    /\ jeffa_tokenize(jeffa_normalize_keyword(text)) = jeffa_tokenize(text)

\* C5: the density call returns a natural number, and returns 0 whenever the
\* keyword does not occur: empty token sequence on either side, a keyword
\* longer than the document, or no matching window.
C5_ZeroWhenAbsent ==
  Done("density") =>
    /\ ret \in Nat
    /\ (\/ DocTokens = <<>>
        \/ KwTokens = <<>>
        \/ Len(KwTokens) > Len(DocTokens)
        \/ Occurrences(DocTokens, KwTokens) = 0) => ret = 0

C5_Witness ==
  /\ Done("density")
  /\ DocTokens # <<>> /\ KwTokens # <<>>
  /\ KwTokens[1] = DocTokens[1]
  /\ Len(KwTokens) > 1
  /\ Occurrences(DocTokens, KwTokens) = 0
  /\ ret = 0

\* C6: extractKeywords returns the tokens of the text, in order and with
\* duplicates, that are at least minLength long and not in the supplied
\* stop-word set (the empty set included); the default set is used only
\* when no set is supplied.
C6_ExtractUsesSuppliedSet ==
  Done("extract") =>
    LET S == IF stop_words.is_none THEN JEFFA_STOP_WORDS_EN ELSE stop_words.value
    IN ret = SelectSeq(jeffa_tokenize(text),
                       LAMBDA t : Len(t) >= min_len /\ t \notin S)

\* C7: the normalized string is lowercased, has no leading or trailing
\* whitespace and no two adjacent whitespace characters, the empty string
\* maps to the empty string, and normalizing again changes nothing.
C7_NormalizeCanonical ==
  Done("normalize") =>
    /\ str_lower(ret) = ret
    /\ ret # <<>> => (~IsSpace(ret[1]) /\ ~IsSpace(ret[Len(ret)]))
    /\ \A i \in 1..(Len(ret) - 1) : ~(IsSpace(ret[i]) /\ IsSpace(ret[i + 1]))
    /\ text = <<>> => ret = <<>>
    /\ jeffa_normalize_keyword(ret) = ret

\* the maximal runs of word characters of s, in order
RunStarts(s) == {i \in 1..Len(s) : IsWord(s[i]) /\ (i = 1 \/ ~IsWord(s[i - 1]))}

RunEnd(s, i) ==
  CHOOSE j \in i..Len(s) :
    /\ \A m \in i..j : IsWord(s[m])
    /\ (j = Len(s) \/ ~IsWord(s[j + 1]))

RECURSIVE RunsFrom(_, _)
RunsFrom(s, starts) ==
  IF starts = {} THEN <<>>
  ELSE LET i == CHOOSE x \in starts : \A y \in starts : x <= y
       IN <<SubSeq(s, i, RunEnd(s, i))>> \o RunsFrom(s, starts \ {i})

WordRuns(s) == RunsFrom(s, RunStarts(s))

\* C8: tokenize returns the maximal runs of word characters of the
\* normalized text, in order; every token is non-empty, lowercased and made
\* of word characters only; a text without word characters has no tokens.
C8_TokensAreWordRuns ==
  Done("tokenize") =>
    /\ ret = WordRuns(jeffa_normalize_keyword(text))
    /\ \A i \in 1..Len(ret) :
         /\ ret[i] # <<>>
         /\ str_lower(ret[i]) = ret[i]
         /\ \A m \in 1..Len(ret[i]) : IsWord(ret[i][m])
    /\ (\A m \in 1..Len(text) : ~IsWord(text[m])) => ret = <<>>

\* C9: the grade is A from 9000, B from 7500 to 8999, C from 6000 to 7499,
\* D from 4000 to 5999 and F below 4000.
C9_GradeThresholds ==
  Done("grade") =>
    /\ ret = "A" <=> total_bps >= 9000
    /\ ret = "B" <=> (7500 <= total_bps /\ total_bps <= 8999)
    /\ ret = "C" <=> (6000 <= total_bps /\ total_bps <= 7499)
    /\ ret = "D" <=> (4000 <= total_bps /\ total_bps <= 5999)
    /\ ret = "F" <=> total_bps < 4000

C9_Witness ==
  /\ Done("grade")
  /\ total_bps = 8999
  /\ ret = "B"

\* C10: with n document tokens and k >= 1 keyword tokens the density is at
\* most floor(max(0, n - k + 1) * 10000 / n); it is 10000 only for a
\* one-token keyword equal to every document token, and below 10000 for any
\* keyword of two or more tokens.
C10_CountBound ==
  (Done("density") /\ Len(KwTokens) >= 1) =>
    /\ DocTokens # <<>> =>
         ret <= (Max0(Len(DocTokens) - Len(KwTokens) + 1) * 10000) \div Len(DocTokens)
    /\ DocTokens = <<>> => ret = 0
    /\ ret = 10000 => (Len(KwTokens) = 1 /\ AllEqual(DocTokens, KwTokens[1]))
    /\ Len(KwTokens) >= 2 => ret < 10000

C10_Witness ==
  /\ Done("density")
  /\ Len(KwTokens) = 2
  /\ Len(DocTokens) = 3
  /\ ret = 6666

====
